---- MODULE Spec2Model ----
(***************************************************************************)
(* loghub: changelog generation from closed issues and pull requests.      *)
(*                                                                         *)
(* Three specifications over one set of variables:                         *)
(*   SpecRun    - create_changelog up to the construction of GitHubRepo    *)
(*                (repo.py __init__ and _check_rate);                      *)
(*   SpecIssues - one call of GitHubRepo.issues on a client object:        *)
(*                pagination, time window, merge and branch filtering;     *)
(*   SpecFilter - the pure selection functions of formatter.py applied to  *)
(*                bounded inputs, and re-applied to their own output.      *)
(***************************************************************************)
EXTENDS Integers, Sequences, FiniteSets, TLC

VARIABLES
    pc,             \* position of the running call
    status,         \* "running", "returned", or how the process ended
    events,         \* remote calls and rate-limit checks made so far, in order
    creds,          \* username / password / token handed to GitHubRepo
    remote_pages,   \* what the issue listing answers for page 1, 2, ...
    since,          \* issues(since=...)
    until,          \* issues(until=...)
    branch,         \* issues(branch=...)
    page,           \* local `page` of issues()
    obj,            \* the fetched item objects, by identity (fetch order)
    issues,         \* local `issues` of issues(): a list of object identities
    copy,           \* the `issues[:]` the merge loop iterates over
    idx,            \* position of the merge loop in `copy`
    f_issues,       \* selection functions: the input list
    f_call,         \* selection functions: the last call and its result
    f_first         \* selection functions: the first call, once re-applied

vars == <<pc, status, events, creds, remote_pages, since, until, branch,
          page, obj, issues, copy, idx, f_issues, f_call, f_first>>

runVars    == <<pc, status, events, creds>>
issuesVars == <<remote_pages, since, until, branch, page, obj, issues, copy, idx>>
filterVars == <<f_issues, f_call, f_first>>

\* Python's None, for string-valued arguments.
None == "None"

\* Python truthiness of a string-or-None argument.
Truthy(v) == v # None /\ v # ""

----------------------------------------------------------------------------
(* Bounds of the model.                                                    *)

\* Longest page sequence the remote holds (later pages are empty).
MaxPages == 2

\* Longest input list handed to a selection function.
MaxIssues == 2

\* Longest list of label-group configs.
MaxGroups == 2

----------------------------------------------------------------------------
(* Credentials and the rate-limit check (repo.py).                         *)

CredSet == [username : {None, "octocat"},
            password : {None, "hunter2"},
            token    : {None, "abc123"}]

\* Values the remote may report as the remaining request budget.
RateValues == {0, 7}

\* GitHubRepo._check_rate.  __init__ stores _username, _password and _repo
\* but never _token, so reading self._token raises AttributeError; the `or`
\* reads it only when `not username and not password` is false.
_check_rate(remaining, c) ==
    IF remaining = 0
    THEN IF (~Truthy(c.username) /\ ~Truthy(c.password))
         THEN "exit_rate"
         ELSE "AttributeError"
    ELSE "ok"

Event(op, arg, res) == [op |-> op, arg |-> arg, res |-> res]

IsCheck(e) == e.op = "check_rate"
IsCall(e)  == e.op # "check_rate"

----------------------------------------------------------------------------
(* create_changelog: construction of the client (formatter.py 112-116,     *)
(* repo.py 23-56).                                                         *)

LookupResults == {"ok", "ApiNotFoundError", "ApiError"}

\* repo.py 36-43: self.gh.users(repo_organization).get()
InitUsers ==
    /\ pc = "init_users"
    /\ \E r \in LookupResults :
         /\ events' = Append(events, Event("users.get", 0, r))
         /\ IF r = "ok" THEN pc' = "init_repo" /\ status' = status
            ELSE IF r = "ApiNotFoundError"
                 THEN pc' = "exit" /\ status' = "exit_org"
                 ELSE pc' = "init_users_rate" /\ status' = status
    /\ UNCHANGED <<creds, issuesVars, filterVars>>

\* The _check_rate call of an `except ApiError` branch of __init__.
InitCheck(at, next) ==
    /\ pc = at
    /\ \E remaining \in RateValues :
         LET out == _check_rate(remaining, creds) IN
         /\ events' = Append(events, Event("check_rate", remaining, out))
         /\ IF out = "ok" THEN pc' = next /\ status' = status
            ELSE pc' = "exit" /\ status' = out
    /\ UNCHANGED <<creds, issuesVars, filterVars>>

\* repo.py 42-43
InitUsersRate == InitCheck("init_users_rate", "init_repo")

\* repo.py 46-54: self.repo.get()
InitRepo ==
    /\ pc = "init_repo"
    /\ \E r \in LookupResults :
         /\ events' = Append(events, Event("repo.get", 0, r))
         /\ IF r = "ok" THEN pc' = "init_end" /\ status' = status
            ELSE IF r = "ApiNotFoundError"
                 THEN pc' = "exit" /\ status' = "exit_repo"
                 ELSE pc' = "init_repo_rate" /\ status' = status
    /\ UNCHANGED <<creds, issuesVars, filterVars>>

\* repo.py 53-54
InitRepoRate == InitCheck("init_repo_rate", "init_end")

\* repo.py 56: the unconditional sys.exit(1) that ends __init__.
InitEnd ==
    /\ pc = "init_end"
    /\ pc' = "exit"
    /\ status' = "exit_init"
    /\ UNCHANGED <<events, creds, issuesVars, filterVars>>

----------------------------------------------------------------------------
(* Strings are sequences of one-character strings, so that splitting,      *)
(* slicing and int() are computed and not assumed.                         *)

DigitVal(c) ==
    CASE c = "0" -> 0 [] c = "1" -> 1 [] c = "2" -> 2 [] c = "3" -> 3
      [] c = "4" -> 4 [] c = "5" -> 5 [] c = "6" -> 6 [] c = "7" -> 7
      [] c = "8" -> 8 [] c = "9" -> 9

\* int(s) for a string of decimal digits.
RECURSIVE int(_)
int(s) ==
    IF s = <<>> THEN 0
    ELSE 10 * int(SubSeq(s, 1, Len(s) - 1)) + DigitVal(s[Len(s)])

\* s.split(sep) for a one-character separator.
RECURSIVE split(_, _)
split(s, sep) ==
    IF \A k \in 1..Len(s) : s[k] # sep
    THEN <<s>>
    ELSE LET k == CHOOSE j \in 1..Len(s) :
                      s[j] = sep /\ \A m \in 1..(j - 1) : s[m] # sep
         IN <<SubSeq(s, 1, k - 1)>> \o split(SubSeq(s, k + 1, Len(s)), sep)

\* GitHubRepo.str_to_date: 'YYYY-MM-DDTHH:MM:SSZ' to the fields of a
\* datetime, <<year, month, day, hour, minutes, seconds>>.
str_to_date(string) ==
    LET parts      == split(string, "T")
        date_parts == parts[1]
        time_parts == SubSeq(parts[2], 1, Len(parts[2]) - 1)
        ymd        == split(date_parts, "-")
        hms        == split(time_parts, ":")
    IN <<int(ymd[1]), int(ymd[2]), int(ymd[3]),
         int(hms[1]), int(hms[2]), int(hms[3])>>

\* A comparison that also holds of equal dates.
RECURSIVE date_lt_or_equal(_, _)
date_lt_or_equal(a, b) ==
    IF a = <<>> THEN TRUE
    ELSE IF Head(a) # Head(b) THEN Head(a) < Head(b)
    ELSE date_lt_or_equal(Tail(a), Tail(b))

\* datetime.__lt__: field by field, most significant first.
RECURSIVE date_lt(_, _)
date_lt(a, b) ==
    IF a = <<>> THEN FALSE
    ELSE IF Head(a) # Head(b) THEN Head(a) < Head(b)
    ELSE date_lt(Tail(a), Tail(b))

\* datetime.__gt__
date_gt(a, b) == date_lt(b, a)

\* Three closing times one second apart, across a minute and hour boundary.
T0 == <<"2","0","1","7","-","0","3","-","0","1","T","1","1",":","5","9",":","5","9","Z">>
T1 == <<"2","0","1","7","-","0","3","-","0","1","T","1","2",":","0","0",":","0","0","Z">>
T2 == <<"2","0","1","7","-","0","3","-","0","1","T","1","2",":","0","0",":","0","1","Z">>

\* A fourth one, a day earlier but later in the day than all of them.
TY == <<"2","0","1","7","-","0","2","-","2","8","T","2","3",":","0","0",":","3","0","Z">>

----------------------------------------------------------------------------
(* The remote repository as GitHubRepo.issues sees it.                     *)

\* per_page of the listing request.
PerPage == 100

\* An item of the listing, as decoded from the response.
RawItem(n, pr, names, closed) ==
    [number       |-> n,
     pull_request |-> pr,
     labels       |-> [k \in 1..Len(names) |-> [name |-> names[k]]],
     closed_at    |-> closed]

RawIssue(n, closed) == RawItem(n, None, <<"bug">>, closed)
RawPR(n, closed)    == RawItem(n, "pulls/url", <<"enhancement">>, closed)

\* What GET pulls/<n>/merge answers: 204, 404, or some other failure.
MergeAnswer(n) ==
    CASE n \in {2, 5} -> "ok"
      [] n \in {3, 6} -> "ApiNotFoundError"
      [] OTHER        -> "Exception"

\* pr_data['base']['ref'] of GET pulls/<n>.
BaseRef(n) == IF n \in {5, 6} THEN "dev" ELSE "master"

\* A full page: per_page distinct issues.
FullPage == [k \in 1..PerPage |-> RawIssue(100 + k, T1)]

\* The pages the listing may answer with: empty, full, single items, a
\* duplicated item, and mixed pages with closing times around T1.
PageSet ==
    {<<>>, FullPage,
     <<RawPR(3, T1), RawPR(3, T1)>>,
     <<RawPR(2, T0), RawIssue(1, T2)>>,
     <<RawIssue(1, TY), RawPR(2, T2)>>,
     <<RawIssue(1, T0)>>, <<RawIssue(1, T1)>>,
     <<RawPR(4, T1)>>, <<RawPR(5, T1)>>, <<RawPR(6, T1)>>}

RECURSIVE SeqsUpTo(_, _)
SeqsUpTo(S, n) ==
    IF n = 0 THEN {<<>>}
    ELSE LET shorter == SeqsUpTo(S, n - 1)
         IN shorter \cup {Append(q, x) : q \in {r \in shorter : Len(r) = n - 1}, x \in S}

\* The answer to issues.get(page=p): pages past the last one are empty.
PageAt(p) == IF p <= Len(remote_pages) THEN remote_pages[p] ELSE <<>>

\* The credentials a client object is used with.
ClientCreds ==
    {c \in CredSet :
        \/ c = [username |-> None, password |-> None, token |-> None]
        \/ c = [username |-> "octocat", password |-> "hunter2", token |-> None]
        \/ c = [username |-> None, password |-> None, token |-> "abc123"]}

----------------------------------------------------------------------------
(* GitHubRepo.issues (repo.py 115-186).                                    *)

\* `issue in issues`: membership by equality of the objects, in heap h.
Contains(ids, h, o) == \E k \in 1..Len(ids) : h[ids[k]] = o

\* issues.remove(issue): drops the first element equal to the object.
Remove(ids, h, o) ==
    LET k == CHOOSE j \in 1..Len(ids) :
                 h[ids[j]] = o /\ \A m \in 1..(j - 1) : h[ids[m]] # o
    IN SubSeq(ids, 1, k - 1) \o SubSeq(ids, k + 1, Len(ids))

\* self._check_rate() at the head of a client method.
IssuesCheck ==
    /\ pc = "issues_rate"
    /\ \E remaining \in RateValues :
         LET out == _check_rate(remaining, creds) IN
         /\ events' = Append(events, Event("check_rate", remaining, out))
         /\ IF out = "ok" THEN pc' = "fetch" /\ status' = status
            ELSE pc' = "exit" /\ status' = out
    /\ UNCHANGED <<creds, issuesVars, filterVars>>

\* A pagination loop that takes a page shorter than per_page as the last.
FetchPage_short_stops ==
    /\ pc = "fetch"
    /\ LET result == PageAt(page)
           n      == Len(obj)
       IN /\ events' = Append(events, Event("issues.get", page, Len(result)))
          /\ obj' = obj \o result
          /\ issues' = issues \o [k \in 1..Len(result) |-> n + k]
          /\ IF Len(result) = PerPage
             THEN page' = page + 1 /\ pc' = "fetch"
             ELSE page' = page /\ pc' = "since"
    /\ UNCHANGED <<status, creds, remote_pages, since, until, branch, copy, idx,
                   filterVars>>

\* repo.py 131-147: one turn of the pagination loop.
FetchPage ==
    /\ pc = "fetch"
    /\ LET result == PageAt(page)
           n      == Len(obj)
       IN /\ events' = Append(events, Event("issues.get", page, Len(result)))
          /\ IF Len(result) > 0
             THEN /\ obj' = obj \o result
                  /\ issues' = issues \o [k \in 1..Len(result) |-> n + k]
                  /\ page' = page + 1
                  /\ pc' = "fetch"
             ELSE /\ pc' = "since"
                  /\ UNCHANGED <<obj, issues, page>>
    /\ UNCHANGED <<status, creds, remote_pages, since, until, branch, copy, idx,
                   filterVars>>

\* repo.py 152-155 and 160-163: scan a copy, remove from the list.  `drop`
\* holds the identities whose date comparison is true.  The turns lo..hi of
\* the loop, applied in order to the list `cur` (the range is halved only
\* to keep the evaluation shallow on long lists).
RECURSIVE remove_where(_, _, _, _, _)
remove_where(cp, lo, hi, cur, drop) ==
    IF lo > hi THEN cur
    ELSE IF lo = hi
    THEN LET o == obj[cp[lo]]
         IN IF cp[lo] \in drop /\ Contains(cur, obj, o)
            THEN Remove(cur, obj, o) ELSE cur
    ELSE LET mid  == (lo + hi) \div 2
             left == remove_where(cp, lo, mid, cur, drop)
         IN IF left = <<>> THEN <<>>     \* nothing is left to remove
            ELSE remove_where(cp, mid + 1, hi, left, drop)

\* repo.py 150-155
FilterSince ==
    /\ pc = "since"
    /\ IF since # <<>>
       THEN LET since_date == str_to_date(since)
                drop == {i \in DOMAIN obj :
                           date_lt(str_to_date(obj[i].closed_at), since_date)}
            IN issues' = remove_where(issues, 1, Len(issues), issues, drop)
       ELSE issues' = issues
    /\ pc' = "until"
    /\ UNCHANGED <<status, events, creds, remote_pages, since, until, branch,
                   page, obj, copy, idx, filterVars>>

\* repo.py 158-163, and the copy the next loop takes at line 166.
FilterUntil ==
    /\ pc = "until"
    /\ IF until # <<>>
       THEN LET until_date == str_to_date(until)
                drop == {i \in DOMAIN obj :
                           date_gt(str_to_date(obj[i].closed_at), until_date)}
            IN issues' = remove_where(issues, 1, Len(issues), issues, drop)
       ELSE issues' = issues
    /\ copy' = issues'
    /\ idx' = 1
    /\ pc' = "merge"
    /\ UNCHANGED <<status, events, creds, remote_pages, since, until, branch,
                   page, obj, filterVars>>

\* repo.py 170-172: issue['loghub_label_names'] = [l['name'] for l in labels]
Annotate(o) ==
    [number             |-> o.number,
     pull_request       |-> o.pull_request,
     labels             |-> o.labels,
     closed_at          |-> o.closed_at,
     loghub_label_names |-> [k \in 1..Len(o.labels) |-> o.labels[k].name]]

\* A lookup in which only the documented not-found answer means unmerged.
is_merged_unless_404(n) == MergeAnswer(n) # "ApiNotFoundError"

\* GitHubRepo.is_merged after its rate check (repo.py 195-200): any
\* exception of the lookup means "not merged".
is_merged(n) == MergeAnswer(n) = "ok"

\* repo.py 166-174 for items that are no pull request: they are annotated
\* and nothing else happens.  The turns up to the next pull request make no
\* remote call and are taken in one step.
MergeIssue ==
    /\ pc = "merge"
    /\ idx <= Len(copy)
    /\ ~Truthy(obj[copy[idx]].pull_request)
    /\ LET stop == IF \E j \in idx..Len(copy) : Truthy(obj[copy[j]].pull_request)
                   THEN CHOOSE j \in idx..Len(copy) :
                          /\ Truthy(obj[copy[j]].pull_request)
                          /\ \A m \in idx..(j - 1) : ~Truthy(obj[copy[m]].pull_request)
                   ELSE Len(copy) + 1
           run  == {copy[j] : j \in idx..(stop - 1)}
       IN /\ obj' = [i \in DOMAIN obj |-> IF i \in run THEN Annotate(obj[i]) ELSE obj[i]]
          /\ idx' = stop
    /\ UNCHANGED <<pc, status, events, creds, remote_pages, since, until, branch,
                   page, issues, copy, filterVars>>

\* repo.py 166-177 for a pull request: annotate, then is_merged(number)
\* (repo.py 188-200) with its own rate check.
MergeIsMerged ==
    /\ pc = "merge"
    /\ idx <= Len(copy)
    /\ Truthy(obj[copy[idx]].pull_request)
    /\ LET issue  == Annotate(obj[copy[idx]])
           number == issue.number
           heap   == [obj EXCEPT ![copy[idx]] = issue]
       IN /\ obj' = heap
          /\ \E remaining \in RateValues :
               LET out == _check_rate(remaining, creds)
                   chk == Event("check_rate", remaining, out)
               IN IF out # "ok"
                  THEN /\ events' = Append(events, chk)
                       /\ pc' = "exit" /\ status' = out
                       /\ UNCHANGED <<issues, idx>>
                  ELSE /\ events' = events \o
                            <<chk, Event("merge.get", number, MergeAnswer(number))>>
                       /\ issues' = IF ~is_merged(number) /\ Contains(issues, heap, issue)
                                    THEN Remove(issues, heap, issue) ELSE issues
                       /\ status' = status
                       /\ IF Truthy(branch)
                          THEN pc' = "merge_branch" /\ idx' = idx
                          ELSE pc' = "merge" /\ idx' = idx + 1
    /\ UNCHANGED <<creds, remote_pages, since, until, branch, page, copy, filterVars>>

\* repo.py 179-184: self.pr(number) (repo.py 110-113) and the base branch.
MergeBranch ==
    /\ pc = "merge_branch"
    /\ LET issue  == obj[copy[idx]]
           number == issue.number
       IN \E remaining \in RateValues :
            LET out == _check_rate(remaining, creds)
                chk == Event("check_rate", remaining, out)
            IN IF out # "ok"
               THEN /\ events' = Append(events, chk)
                    /\ pc' = "exit" /\ status' = out
                    /\ UNCHANGED <<issues, idx>>
               ELSE LET base_ref == BaseRef(number) IN
                    /\ events' = events \o <<chk, Event("pulls.get", number, base_ref)>>
                    /\ issues' = IF base_ref # branch /\ Contains(issues, obj, issue)
                                 THEN Remove(issues, obj, issue) ELSE issues
                    /\ status' = status
                    /\ pc' = "merge" /\ idx' = idx + 1
    /\ UNCHANGED <<creds, remote_pages, since, until, branch, page, obj, copy,
                   filterVars>>

\* repo.py 186: return issues
ReturnIssues ==
    /\ pc = "merge"
    /\ idx > Len(copy)
    /\ pc' = "done"
    /\ status' = "returned"
    /\ UNCHANGED <<events, creds, issuesVars, filterVars>>

----------------------------------------------------------------------------
(* Label strings and the regular expressions of formatter.py.              *)

\* ' '.join(names)
RECURSIVE join(_, _)
join(sep, names) ==
    IF names = <<>> THEN <<>>
    ELSE IF Len(names) = 1 THEN names[1]
    ELSE names[1] \o <<sep>> \o join(sep, Tail(names))

\* re.compile(p).search(text) for patterns built from literal characters,
\* '.', a leading '^', a trailing '$' and 'c*'.
RECURSIVE match_here(_, _)
match_here(re, text) ==
    IF re = <<>> THEN TRUE
    ELSE IF Len(re) >= 2 /\ re[2] = "*"
    THEN \E k \in 0..Len(text) :
            /\ \A m \in 1..k : re[1] = "." \/ text[m] = re[1]
            /\ match_here(SubSeq(re, 3, Len(re)), SubSeq(text, k + 1, Len(text)))
    ELSE IF re = <<"$">> THEN text = <<>>
    ELSE /\ text # <<>>
         /\ re[1] = "." \/ re[1] = text[1]
         /\ match_here(Tail(re), Tail(text))

search(re, text) ==
    IF re # <<>> /\ re[1] = "^"
    THEN match_here(Tail(re), text)
    ELSE \E k \in 0..Len(text) : match_here(re, SubSeq(text, k + 1, Len(text)))

\* The regex strings tried; <<>> is the empty string.
RegexSet ==
    {<<>>, <<"a">>, <<"a", "b">>, <<"a", " ", "b">>, <<"^", "b">>,
     <<"b", "$">>, <<"a", "*">>}

\* Label names.
LabelA  == <<"a">>
LabelB  == <<"b">>
LabelAB == <<"a", "b">>

\* An annotated item as the selection functions read it; pull_request is
\* a missing key, an empty value or the pull-request data.
FilterItems ==
    [pull_request       : {None, "", "pulls/url"},
     loghub_label_names : {<<>>, <<LabelA>>, <<LabelB>>, <<LabelA, LabelB>>,
                           <<LabelAB>>}]

\* The label-group configs tried.
GroupSet == [name : {"Bugs", "Docs", "Misc"}, label : {LabelA, LabelB}]

----------------------------------------------------------------------------
(* The selection functions (formatter.py 31-94).                           *)

\* A turn whose second test forgets is_pr.
prs_turn_any_item(filtered_prs, issue, pr_label_regex) ==
    LET is_pr  == Truthy(issue.pull_request)
        labels == join(" ", issue.loghub_label_names)
        first  == IF is_pr /\ pr_label_regex # <<>>
                  THEN IF search(pr_label_regex, labels)
                       THEN Append(filtered_prs, issue) ELSE filtered_prs
                  ELSE filtered_prs
    IN IF pr_label_regex = <<>> THEN Append(first, issue) ELSE first

\* formatter.py 36-45: one turn of the loop of filter_prs_by_regex.
prs_turn(filtered_prs, issue, pr_label_regex) ==
    LET is_pr  == Truthy(issue.pull_request)
        labels == join(" ", issue.loghub_label_names)
        first  == IF is_pr /\ pr_label_regex # <<>>
                  THEN IF search(pr_label_regex, labels)
                       THEN Append(filtered_prs, issue) ELSE filtered_prs
                  ELSE filtered_prs
    IN IF is_pr /\ pr_label_regex = <<>> THEN Append(first, issue) ELSE first

\* formatter.py 31-47
RECURSIVE filter_prs_by_regex(_, _)
filter_prs_by_regex(items, pr_label_regex) ==
    IF items = <<>> THEN <<>>
    ELSE prs_turn(filter_prs_by_regex(SubSeq(items, 1, Len(items) - 1), pr_label_regex),
                  items[Len(items)], pr_label_regex)

\* formatter.py 55-65: one turn of the loop of filter_issues_by_regex.
issues_turn(filtered_issues, issue, issue_label_regex) ==
    LET is_pr    == Truthy(issue.pull_request)
        is_issue == ~is_pr
        labels   == join(" ", issue.loghub_label_names)
    IN IF is_issue /\ issue_label_regex # <<>>
       THEN IF search(issue_label_regex, labels)
            THEN Append(filtered_issues, issue) ELSE filtered_issues
       ELSE IF is_issue /\ issue_label_regex = <<>>
       THEN Append(filtered_issues, issue)
       ELSE filtered_issues

\* formatter.py 50-67
RECURSIVE filter_issues_by_regex(_, _)
filter_issues_by_regex(items, issue_label_regex) ==
    IF items = <<>> THEN <<>>
    ELSE issues_turn(filter_issues_by_regex(SubSeq(items, 1, Len(items) - 1),
                                            issue_label_regex),
                     items[Len(items)], issue_label_regex)

\* An OrderedDict is a sequence of [key, value] in insertion order.
od_has(od, key) == \E k \in 1..Len(od) : od[k].key = key

\* od[key] = value: a new key goes last, an old one keeps its place.
od_set(od, key, value) ==
    IF od_has(od, key)
    THEN [k \in 1..Len(od) |-> IF od[k].key = key
                               THEN [key |-> key, value |-> value] ELSE od[k]]
    ELSE Append(od, [key |-> key, value |-> value])

\* od[key].append(x)
od_append(od, key, x) ==
    [k \in 1..Len(od) |-> IF od[k].key = key
                          THEN [key |-> key, value |-> Append(od[k].value, x)]
                          ELSE od[k]]

\* formatter.py 75-76
RECURSIVE empty_groups(_)
empty_groups(groups) ==
    IF groups = <<>> THEN <<>>
    ELSE od_set(empty_groups(SubSeq(groups, 1, Len(groups) - 1)),
                groups[Len(groups)].name, <<>>)

\* `label in labels` for a list of names.
in_list(label, labels) == \E k \in 1..Len(labels) : labels[k] = label

\* formatter.py 79-85: the inner loop for one issue, over the first n groups.
\* The state is [grouped, selected].
RECURSIVE groups_turn(_, _, _, _)
groups_turn(st, issue, groups, n) ==
    IF n = 0 THEN st
    ELSE LET before == groups_turn(st, issue, groups, n - 1)
             labels == issue.loghub_label_names
             label  == groups[n].label
             name   == groups[n].name
         IN IF in_list(label, labels)
            THEN [grouped  |-> od_append(before.grouped, name, issue),
                  selected |-> Append(before.selected, issue)]
            ELSE before

\* formatter.py 78-85: the outer loop over the first n issues.
RECURSIVE groups_loop(_, _, _)
groups_loop(items, groups, n) ==
    IF n = 0 THEN [grouped |-> empty_groups(groups), selected |-> <<>>]
    ELSE groups_turn(groups_loop(items, groups, n - 1), items[n], groups, Len(groups))

\* A grouping that leaves the empty groups in the mapping.
filter_issue_label_groups_keeps_empty(items, issue_label_groups) ==
    IF issue_label_groups # <<>>
    THEN LET st == groups_loop(items, issue_label_groups, Len(items))
         IN [new_filtered_issues     |-> st.selected,
             grouped_filtered_issues |-> st.grouped]
    ELSE [new_filtered_issues |-> items, grouped_filtered_issues |-> <<>>]

\* formatter.py 70-94: returns new_filtered_issues and grouped_filtered_issues.
filter_issue_label_groups(items, issue_label_groups) ==
    IF issue_label_groups # <<>>
    THEN LET st == groups_loop(items, issue_label_groups, Len(items))
         IN [new_filtered_issues     |-> st.selected,
             grouped_filtered_issues |->
                 SelectSeq(st.grouped, LAMBDA e : e.value # <<>>)]
    ELSE [new_filtered_issues |-> items, grouped_filtered_issues |-> <<>>]

\* A call of one of the three functions and what it returned.
Call(op, regex, groups, input) ==
    LET res == IF op = "prs"
               THEN [new_filtered_issues     |-> filter_prs_by_regex(input, regex),
                     grouped_filtered_issues |-> <<>>]
               ELSE IF op = "issues"
               THEN [new_filtered_issues     |-> filter_issues_by_regex(input, regex),
                     grouped_filtered_issues |-> <<>>]
               ELSE filter_issue_label_groups(input, groups)
    IN [op |-> op, regex |-> regex, groups |-> groups, input |-> input,
        out |-> res.new_filtered_issues, grouped |-> res.grouped_filtered_issues]

\* formatter.py 150: filter_prs_by_regex(issues, pr_label_regex)
ApplyPrs ==
    /\ pc = "select"
    /\ f_call.op = "none"
    /\ \E regex \in RegexSet : f_call' = Call("prs", regex, <<>>, f_issues)
    /\ UNCHANGED <<runVars, issuesVars, f_issues, f_first>>

\* formatter.py 151: filter_issues_by_regex(issues, issue_label_regex)
ApplyIssues ==
    /\ pc = "select"
    /\ f_call.op = "none"
    /\ \E regex \in RegexSet : f_call' = Call("issues", regex, <<>>, f_issues)
    /\ UNCHANGED <<runVars, issuesVars, f_issues, f_first>>

\* formatter.py 154-155: filter_issue_label_groups(filtered_issues, groups)
ApplyGroups ==
    /\ pc = "select"
    /\ f_call.op = "none"
    /\ \E groups \in SeqsUpTo(GroupSet, MaxGroups) :
         f_call' = Call("groups", <<>>, groups, f_issues)
    /\ UNCHANGED <<runVars, issuesVars, f_issues, f_first>>

\* The same function with the same arguments on its own output.
Reapply ==
    /\ pc = "select"
    /\ f_call.op # "none"
    /\ f_first.op = "none"
    /\ f_first' = f_call
    /\ f_call' = Call(f_call.op, f_call.regex, f_call.groups, f_call.out)
    /\ UNCHANGED <<runVars, issuesVars, f_issues>>

IdleIssues ==
    /\ remote_pages = <<>> /\ since = <<>> /\ until = <<>> /\ branch = None
    /\ page = 1 /\ obj = <<>> /\ issues = <<>> /\ copy = <<>> /\ idx = 1

IdleFilter ==
    /\ f_issues = <<>>
    /\ f_call = [op |-> "none"]
    /\ f_first = [op |-> "none"]

InitRun ==
    /\ pc = "init_users"
    /\ status = "running"
    /\ events = <<>>
    /\ creds \in CredSet
    /\ IdleIssues
    /\ IdleFilter

NextRun == InitUsers \/ InitUsersRate \/ InitRepo \/ InitRepoRate \/ InitEnd

SpecRun == InitRun /\ [][NextRun]_vars

InitIssues ==
    /\ pc = "issues_rate"
    /\ status = "running"
    /\ events = <<>>
    /\ creds \in ClientCreds
    /\ remote_pages \in SeqsUpTo(PageSet, MaxPages)
    /\ since \in {<<>>, T1}
    /\ until \in {<<>>, T1}
    /\ branch \in {None, "master"}
    /\ page = 1 /\ obj = <<>> /\ issues = <<>> /\ copy = <<>> /\ idx = 1
    /\ IdleFilter

NextIssues ==
    \/ IssuesCheck \/ FetchPage \/ FilterSince \/ FilterUntil
    \/ MergeIssue \/ MergeIsMerged \/ MergeBranch \/ ReturnIssues

SpecIssues == InitIssues /\ [][NextIssues]_vars

InitFilter ==
    /\ pc = "select"
    /\ status = "running"
    /\ events = <<>>
    /\ creds = [username |-> None, password |-> None, token |-> None]
    /\ IdleIssues
    /\ f_issues \in SeqsUpTo(FilterItems, MaxIssues)
    /\ f_call = [op |-> "none"]
    /\ f_first = [op |-> "none"]

NextFilter == ApplyPrs \/ ApplyIssues \/ ApplyGroups \/ Reapply

SpecFilter == InitFilter /\ [][NextFilter]_vars

----------------------------------------------------------------------------
(* Properties of GitHubRepo.__init__ and _check_rate, under SpecRun.       *)

\* One of the fatal conditions has occurred: an invalid organisation or
\* repository, another API fault at startup, or an exhausted rate limit.
FatalOccurred ==
    \E k \in 1..Len(events) :
        \/ events[k].res \in {"ApiNotFoundError", "ApiError"}
        \/ IsCheck(events[k]) /\ events[k].arg = 0

\* C1: the process terminates only when one of the listed fatal conditions
\* has occurred; a run in which both startup lookups succeed is not ended by
\* the construction of the client.
C1_TerminationOnlyOnFatal == pc = "exit" => FatalOccurred

\* C9: whenever _check_rate runs while the remaining budget is 0, the
\* outcome is the fatal rate-limit exit, whatever credentials were given:
\* no other fault is raised and no remote call follows the check.
C9_ExhaustedRateExits ==
    \A k \in 1..Len(events) :
        (IsCheck(events[k]) /\ events[k].arg = 0)
            => /\ k = Len(events)
               /\ status = "exit_rate"

----------------------------------------------------------------------------
(* Properties of GitHubRepo.issues, under SpecIssues.                      *)

\* Seconds since 2000 on a common scale, read off the fixed columns of the ISO form
\* (exact between two times of the same month, monotone otherwise).
Seconds(ts) ==
    LET num(a, b) == int(SubSeq(ts, a, b))
    IN (((((num(1, 4) - 2000) * 12 + num(6, 7)) * 31 + num(9, 10)) * 24
           + num(12, 13)) * 60 + num(15, 16)) * 60 + num(18, 19)

InWindow(o) ==
    /\ since # <<>> => Seconds(o.closed_at) >= Seconds(since)
    /\ until # <<>> => Seconds(o.closed_at) <= Seconds(until)

\* The state between the time-window filtering and the merge loop.
AfterTimeFilter == pc = "merge" /\ idx = 1

Ids == [k \in 1..Len(obj) |-> k]

\* C5: time-window filtering is boundary-inclusive.  An item is kept iff
\* it was closed neither strictly before `since` nor strictly after `until`
\* (each when given): closed exactly at a bound it is kept, one second
\* outside it is dropped, and with no bound nothing is dropped.
C5_TimeWindowInclusive ==
    AfterTimeFilter =>
        /\ issues = SelectSeq(Ids, LAMBDA i : InWindow(obj[i]))
        /\ \A i \in DOMAIN obj :
             LET kept   == \E k \in 1..Len(issues) : issues[k] = i
                 closed == Seconds(obj[i].closed_at)
             IN /\ since # <<>> /\ closed = Seconds(since) - 1 => ~kept
                /\ until # <<>> /\ closed = Seconds(until) + 1 => ~kept
                /\ (since # <<>> /\ closed = Seconds(since)
                      /\ (until # <<>> => closed <= Seconds(until))) => kept
                /\ (until # <<>> /\ closed = Seconds(until)
                      /\ (since # <<>> => closed >= Seconds(since))) => kept
        /\ (since = <<>> /\ until = <<>>) => issues = Ids

\* Both bounds given; one item a second early, one on the bound, one a
\* second late have been through the filter.
C5_Witness ==
    /\ AfterTimeFilter
    /\ since = T1 /\ until = T1
    /\ \E i \in DOMAIN obj : obj[i].closed_at = T0
    /\ \E i \in DOMAIN obj : obj[i].closed_at = T2
    /\ \E k \in 1..Len(issues) : obj[issues[k]].closed_at = T1

\* The merge-status lookup of pull request n reported "merged".
ReportedMerged(n) ==
    \E k \in 1..Len(events) :
        events[k].op = "merge.get" /\ events[k].arg = n /\ events[k].res = "ok"

\* The single-PR fetch of pull request n reported base branch b.
ReportedBase(n, b) ==
    \E k \in 1..Len(events) :
        events[k].op = "pulls.get" /\ events[k].arg = n /\ events[k].res = b

KeptByMergeStep(i) ==
    \/ ~Truthy(obj[i].pull_request)
    \/ /\ ReportedMerged(obj[i].number)
       /\ Truthy(branch) => ReportedBase(obj[i].number, branch)

\* C6: of the items that survived time filtering, the returned list holds
\* every item that is no pull request, and exactly the pull requests whose
\* merge lookup reported merged (an error counts as not merged) and, when a
\* branch is given, whose base branch equals it.
C6_MergedAndBranch ==
    pc = "done" => issues = SelectSeq(copy, KeptByMergeStep)

\* A returned list under a branch filter that kept an item that is no pull
\* request and a merged pull request on the branch, and from which a merged
\* pull request on another branch was dropped.
C6_Witness ==
    /\ pc = "done"
    /\ branch = "master"
    /\ \E k \in 1..Len(issues) : Truthy(obj[issues[k]].pull_request)
    /\ \E k \in 1..Len(issues) : ~Truthy(obj[issues[k]].pull_request)
    /\ \E k \in 1..Len(copy) :
         /\ ReportedMerged(obj[copy[k]].number)
         /\ ~ReportedBase(obj[copy[k]].number, branch)
         /\ \A j \in 1..Len(issues) : issues[j] # copy[k]

\* The listing requests made so far.
Requests == SelectSeq(events, LAMBDA e : e.op = "issues.get")

\* The first page the remote answers with zero items.
FirstEmptyPage == CHOOSE p \in 1..(Len(remote_pages) + 1) :
                     PageAt(p) = <<>> /\ \A q \in 1..(p - 1) : PageAt(q) # <<>>

RECURSIVE PagesBefore(_)
PagesBefore(p) == IF p <= 1 THEN <<>> ELSE PagesBefore(p - 1) \o PageAt(p - 1)

\* C7: pages are requested as 1, 2, 3, ...; the loop stops at the first
\* page with zero items and has then accumulated, in order, every page
\* before it; a page with fewer than per_page items does not stop it.
C7_Pagination ==
    /\ \A k \in 1..Len(Requests) :
         /\ Requests[k].arg = k
         /\ k < Len(Requests) => Requests[k].res > 0
    /\ \A k \in 1..Len(Requests) :
         (Requests[k].res > 0 /\ pc \notin {"fetch", "exit"}) => k < Len(Requests)
    /\ pc = "since" =>
         /\ Len(Requests) = FirstEmptyPage
         /\ obj = PagesBefore(FirstEmptyPage)
         /\ issues = Ids

\* The fetch sequence 100, 100, 0 has accumulated 200 items.
C7_Witness ==
    /\ pc = "since"
    /\ Len(Requests) = 3
    /\ Requests[1].res = PerPage /\ Requests[2].res = PerPage /\ Requests[3].res = 0
    /\ Len(issues) = 200

\* C10: every remote call is immediately preceded by its own rate-limit
\* check, and none is made before the first check.
C10_CheckBeforeEveryCall ==
    \A k \in 1..Len(events) :
        IsCall(events[k]) => (k > 1 /\ IsCheck(events[k - 1]))

----------------------------------------------------------------------------
(* Properties of the selection functions, under SpecFilter.                *)

IsPR(it) == it.pull_request = "pulls/url"

LabelsMatch(it, regex) ==
    regex = <<>> \/ search(regex, join(" ", it.loghub_label_names))

\* C2: filter_prs_by_regex returns, in input order and once per occurrence,
\* exactly the pull requests whose space-joined labels match the regex by
\* search (all pull requests when the regex is empty); filter_issues_by_regex
\* does the same for the items that are no pull request; whatever the two
\* regexes, no item of one output is in the other.
C2_RegexFilters ==
    /\ f_call.op = "prs" =>
         f_call.out = SelectSeq(f_call.input,
                                LAMBDA it : IsPR(it) /\ LabelsMatch(it, f_call.regex))
    /\ f_call.op = "issues" =>
         f_call.out = SelectSeq(f_call.input,
                                LAMBDA it : ~IsPR(it) /\ LabelsMatch(it, f_call.regex))
    /\ f_call.op = "none" => \A r1, r2 \in RegexSet :
         LET prs   == filter_prs_by_regex(f_issues, r1)
             other == filter_issues_by_regex(f_issues, r2)
         IN /\ \A k \in 1..Len(prs) : IsPR(prs[k])
            /\ \A k \in 1..Len(other) : ~IsPR(other[k])
            /\ \A k \in 1..Len(prs), j \in 1..Len(other) : prs[k] # other[j]

\* A non-empty regex kept one pull request and dropped another.
C2_Witness ==
    /\ f_call.op = "prs"
    /\ f_call.regex # <<>>
    /\ Len(f_call.out) = 1
    /\ Len(f_call.input) = 2
    /\ \A k \in 1..2 : IsPR(f_call.input[k])

DistinctNames(groups) ==
    \A k, j \in 1..Len(groups) : k # j => groups[k].name # groups[j].name

MatchesGroup(it, g) ==
    \E k \in 1..Len(it.loghub_label_names) : it.loghub_label_names[k] = g.label

Bucket(input, g) == SelectSeq(input, LAMBDA it : MatchesGroup(it, g))

\* C3: with pairwise distinct group names, each group's bucket is exactly
\* the input issues whose label names contain the group's label, in input
\* order (an issue matching two groups is in both); a group with no match
\* is absent; the remaining groups keep their configured order.
C3_GroupBuckets ==
    (f_call.op = "groups" /\ f_call.groups # <<>> /\ DistinctNames(f_call.groups)) =>
        LET kept == SelectSeq(f_call.groups, LAMBDA g : Bucket(f_call.input, g) # <<>>)
        IN f_call.grouped =
             [k \in 1..Len(kept) |->
                [key |-> kept[k].name, value |-> Bucket(f_call.input, kept[k])]]

\* One issue sits in the buckets of two groups.
C3_Witness ==
    /\ f_call.op = "groups"
    /\ Len(f_call.groups) = 2
    /\ DistinctNames(f_call.groups)
    /\ Len(f_call.grouped) = 2
    /\ \E k \in 1..Len(f_call.input) :
         /\ MatchesGroup(f_call.input[k], f_call.groups[1])
         /\ MatchesGroup(f_call.input[k], f_call.groups[2])

\* C4: with label groups configured (distinct names), the selected-issues
\* list holds every input issue that matches at least one group exactly
\* once, also when it matches several, and no issue that matches none.
C4_SelectedOnce ==
    (f_call.op = "groups" /\ f_call.groups # <<>> /\ DistinctNames(f_call.groups)) =>
        f_call.out =
            SelectSeq(f_call.input,
                      LAMBDA it : \E k \in 1..Len(f_call.groups) :
                                      MatchesGroup(it, f_call.groups[k]))

\* C8: each selection function applied to its own output with the same
\* arguments returns the same issue list and the same group mapping.
C8_Idempotent ==
    (f_first.op # "none" /\ DistinctNames(f_first.groups)) =>
        /\ f_call.out = f_first.out
        /\ f_call.grouped = f_first.grouped

====
